---------------------------- MODULE Spec2Model ----------------------------
(***************************************************************************)
(* A model of the two tools of chemag/anicet:                              *)
(*   tools/auxv.print.py    - decoder of the Linux auxiliary vector and    *)
(*                            expander of its HWCAP/HWCAP2 bitmasks;       *)
(*   tools/arm64.inspect.py - classifier of disassembled ARM64             *)
(*                            instructions into ISA-extension categories.  *)
(*                                                                         *)
(* Representation.  A Python int is its canonical little-endian base-256   *)
(* digit sequence (no most-significant zero digit; 0 is <<>>), so that     *)
(* 64-bit fields are exact.  bytes is a sequence of 0..255.  A str is a    *)
(* TLA+ string; its i-th character is SubSeq(s, i, i).                     *)
(***************************************************************************)
EXTENDS Integers, Sequences, FiniteSets, TLC

VARIABLES
    pc,          \* auxv.print.py: position in main()
    args,        \* argparse namespace: decode_auxv, decode_arch, decode_hwcap
    platform,    \* the running interpreter: machine, ulong, byteorder
    source,      \* what the kernel / the capture tool wrote: pairs, ws, tail
    data,        \* bytes read from the file or from /proc/self/auxv
    arch,        \* main's arch
    entries,     \* main's entries
    raised,      \* exception that ended main ("none" while it runs normally)
    lines,       \* what decode_hwcap returned
    ipc,         \* arm64.inspect.py: position in BinaryInspector.inspect()
    disasm,      \* text returned by disassemble()
    total_insn,  \* inspect's total_insn
    ext_i,       \* number of INSPECT_ARRAY items the for loop has consumed
    detected,    \* inspect's detected
    undetected,  \* inspect's undetected
    extension_results, \* inspect's extension_results (ordered key/value pairs)
    output,      \* the ordered dictionary inspect returns
    spc,         \* position of a caller of find_sample_instructions
    s_pattern,   \* the pattern the caller passes
    s_limit,     \* the limit the caller passes
    s_count,     \* what count_instructions returned before the call
    samples,     \* what find_sample_instructions returned
    s_recount    \* what count_instructions returned after the call

auxv_vars == <<pc, args, platform, source, data, arch, entries, raised, lines>>
insp_vars == <<ipc, disasm, total_insn, ext_i, detected, undetected,
               extension_results, output>>
sample_vars == <<spc, s_pattern, s_limit, s_count, samples, s_recount>>
vars == <<auxv_vars, insp_vars, sample_vars>>

None == "None"

-----------------------------------------------------------------------------
(* Bounds of the model *)

\* longest auxv record written to a buffer (in pairs, terminator included)
MaxPairs == 3

\* most lines of a disassembly text
MaxLines == 2

\* greatest limit passed to find_sample_instructions
MaxLimit == 3

-----------------------------------------------------------------------------
(* Sequences, bytes and Python ints *)

Min(a, b) == IF a < b THEN a ELSE b

Reverse(s) == [i \in 1..Len(s) |-> s[Len(s) + 1 - i]]

\* Python's s[i:j] for 0 <= i <= j
Slice(s, i, j) == SubSeq(s, i + 1, Min(j, Len(s)))

\* the canonical digits of the int whose little-endian digits are s
RECURSIVE IntOfDigits(_)
IntOfDigits(s) ==
    IF s = <<>> THEN <<>>
    ELSE IF s[Len(s)] = 0 THEN IntOfDigits(SubSeq(s, 1, Len(s) - 1))
    ELSE s

\* (n >> b) & 1
Bit(n, b) ==
    IF (b \div 8) + 1 > Len(n) THEN 0
    ELSE (n[(b \div 8) + 1] \div (2 ^ (b % 8))) % 2


-----------------------------------------------------------------------------
(* auxv.print.py: tables *)

SUPPORTED_ARCH_LIST == {"aarch64", "x86_64", "i386", "i686"}

AT_NULL == <<>>
AT_HWCAP == <<17>>
AT_HWCAP2 == <<26>>

\* the dict literals, as their items() in insertion order: <<bit, name>>
AARCH64_HWCAP == <<
    <<0, "FP">>, <<1, "ASIMD">>, <<2, "EVTSTRM">>, <<3, "AES">>,
    <<4, "PMULL">>, <<5, "SHA1">>, <<6, "SHA2">>, <<7, "CRC32">>,
    <<8, "ATOMICS">>, <<9, "FPHP">>, <<10, "ASIMDHP">>, <<11, "CPUID">>,
    <<12, "ASIMDRDM">>, <<13, "JSCVT">>, <<14, "FCMA">>, <<15, "LRCPC">>,
    <<16, "DCPOP">>, <<17, "SHA3">>, <<18, "SM3">>, <<19, "SM4">>,
    <<20, "ASIMDDP">>, <<21, "SHA512">>, <<22, "SVE">>, <<23, "ASIMDFHM">>,
    <<28, "ILRCPC">>, <<29, "FLAGM">>, <<30, "SSBS">>, <<31, "SB">> >>

AARCH64_HWCAP2 == <<
    <<0, "DCPODP">>, <<1, "SVE2">>, <<2, "SVEAES">>, <<3, "SVEPMULL">>,
    <<4, "SVEBITPERM">>, <<5, "SVESHA3">>, <<6, "SVESM4">>, <<7, "FLAGM2">>,
    <<8, "FRINT">>, <<9, "SVEI8MM">>, <<10, "SVEF32MM">>, <<11, "SVEF64MM">>,
    <<12, "SVEBF16">>, <<13, "I8MM">>, <<14, "BF16">>, <<15, "DGH">>,
    <<16, "RNG">>, <<17, "BTI">>, <<20, "MTE">>, <<21, "ECV">>,
    <<22, "AFP">>, <<23, "RPRFM">>, <<28, "MTE3">>, <<29, "SSELECT">>,
    <<30, "IDST">> >>

X86_HWCAP == <<
    <<0, "FPU">>, <<1, "VME">>, <<2, "DE">>, <<3, "PSE">>,
    <<4, "TSC">>, <<5, "MSR">>, <<6, "PAE">>, <<7, "MCE">>,
    <<8, "CX8">>, <<9, "APIC">>, <<11, "SEP">>, <<12, "MTRR">>,
    <<13, "PGE">>, <<14, "MCA">>, <<15, "CMOV">>, <<16, "PAT">>,
    <<17, "PSE36">>, <<19, "CLFLUSH">>, <<23, "MMX">>, <<25, "SSE">>,
    <<26, "SSE2">> >>

-----------------------------------------------------------------------------
(* Python built-ins on str and list *)

\* the printable ASCII characters in code-point order: 32..95 and 97..126
\* (code point 96 cannot be written in a TLA+ string and occurs nowhere)
AsciiLow == " !\"#$%&'()*+,-./0123456789:;<=>?@ABCDEFGHIJKLMNOPQRSTUVWXYZ[\\]^_"
AsciiHigh == "abcdefghijklmnopqrstuvwxyz{|}~"

\* s[i - 1], or "" when there is no such character
Char(s, i) == IF 1 <= i /\ i <= Len(s) THEN SubSeq(s, i, i) ELSE ""

OrdTable ==
    [c \in {Char(AsciiLow, i) : i \in 1..Len(AsciiLow)}
           \cup {Char(AsciiHigh, i) : i \in 1..Len(AsciiHigh)} |->
        IF \E i \in 1..Len(AsciiLow) : Char(AsciiLow, i) = c
        THEN 31 + (CHOOSE i \in 1..Len(AsciiLow) : Char(AsciiLow, i) = c)
        ELSE 96 + (CHOOSE i \in 1..Len(AsciiHigh) : Char(AsciiHigh, i) = c)]

\* ord(c); the control characters "\t" "\n" "\r" "\f" are below every
\* printable one
Ord(c) ==
    IF c = "\t" THEN 9
    ELSE IF c = "\n" THEN 10
    ELSE IF c = "\f" THEN 12
    ELSE IF c = "\r" THEN 13
    ELSE OrdTable[c]

\* a < b on str: by code point, a proper prefix first
RECURSIVE StrLess(_, _)
StrLess(a, b) ==
    IF b = "" THEN FALSE
    ELSE IF a = "" THEN TRUE
    ELSE IF Char(a, 1) = Char(b, 1)
         THEN StrLess(SubSeq(a, 2, Len(a)), SubSeq(b, 2, Len(b)))
    ELSE Ord(Char(a, 1)) < Ord(Char(b, 1))

\* the list left in the order it came in: what the expander's lines would
\* hold without the sort
unsorted(xs) == xs

\* sorted(xs) on a list of str: stable, ascending
RECURSIVE Insert(_, _)
Insert(x, ys) ==
    IF ys = <<>> THEN <<x>>
    ELSE IF StrLess(x, Head(ys)) THEN <<x>> \o ys
    ELSE <<Head(ys)>> \o Insert(x, Tail(ys))

RECURSIVE sorted(_)
sorted(xs) ==
    IF xs = <<>> THEN <<>>
    ELSE Insert(xs[Len(xs)], sorted(SubSeq(xs, 1, Len(xs) - 1)))

\* sep.join(xs)
RECURSIVE join(_, _)
join(sep, xs) ==
    IF xs = <<>> THEN ""
    ELSE IF Len(xs) = 1 THEN xs[1]
    ELSE xs[1] \o sep \o join(sep, Tail(xs))

HexDigits == "0123456789abcdef"

\* "%x" % n
RECURSIVE HexOfDigits(_)
HexOfDigits(n) ==
    IF n = <<>> THEN ""
    ELSE Char(HexDigits, (n[Len(n)] \div 16) + 1)
         \o Char(HexDigits, (n[Len(n)] % 16) + 1)
         \o HexOfDigits(SubSeq(n, 1, Len(n) - 1))

FormatHex(n) ==
    IF n = <<>> THEN "0"
    ELSE LET h == HexOfDigits(n) IN
         IF Char(h, 1) = "0" THEN SubSeq(h, 2, Len(h)) ELSE h

-----------------------------------------------------------------------------
(* auxv.print.py: the Hardware Capability Expander *)

\* [name for bit, name in table.items() if (bits >> bit) & 1]
RECURSIVE bits_to_names(_, _)
bits_to_names(bits, table) ==
    IF table = <<>> THEN <<>>
    ELSE (IF Bit(bits, Head(table)[1]) = 1 THEN <<Head(table)[2]>> ELSE <<>>)
         \o bits_to_names(bits, Tail(table))

decode_hwcap(a, hwcap, hwcap2) ==
    IF a = "aarch64" THEN
        LET names1 == bits_to_names(hwcap, AARCH64_HWCAP)
            names2 == bits_to_names(hwcap2, AARCH64_HWCAP2)
        IN  (IF names1 # <<>>
             THEN <<"HWCAP:  " \o join(", ", sorted(names1))>> ELSE <<>>)
            \o
            (IF names2 # <<>>
             THEN <<"HWCAP2: " \o join(", ", sorted(names2))>> ELSE <<>>)
    ELSE IF a \in {"x86_64", "i386", "i686"} THEN
        LET names == bits_to_names(hwcap, X86_HWCAP)
        IN  (IF names # <<>>
             THEN <<"HWCAP:  " \o join(", ", sorted(names))>> ELSE <<>>)
            \o
            (IF hwcap2 # <<>>
             THEN <<"HWCAP2: 0x" \o FormatHex(hwcap2)
                    \o " (rarely used on x86)">>
             ELSE <<>>)
    ELSE <<>>

-----------------------------------------------------------------------------
(* auxv.print.py: the Auxv Record Decoder *)

\* struct.calcsize(fmt) for the two formats parse_auxv uses
calcsize(fmt) == IF fmt = "QQ" THEN 16 ELSE 8

\* one unsigned field of w bytes, in the interpreter's byte order
FieldOf(chunk, k, w, byteorder) ==
    LET raw == SubSeq(chunk, (k - 1) * w + 1, k * w)
    IN  IntOfDigits(IF byteorder = "little" THEN raw ELSE Reverse(raw))

\* struct.unpack(fmt, chunk): native byte order; struct.error unless the
\* chunk has exactly calcsize(fmt) bytes
unpack(fmt, chunk, byteorder) ==
    IF Len(chunk) # calcsize(fmt)
    THEN [raised |-> "struct.error", fields |-> <<>>]
    ELSE [raised |-> "none",
          fields |-> <<FieldOf(chunk, 1, calcsize(fmt) \div 2, byteorder),
                       FieldOf(chunk, 2, calcsize(fmt) \div 2, byteorder)>>]

\* a word size resolution without the default: 0, which parse_auxv rejects,
\* for a hint it does not know
ul_size_no_default(a, native) ==
    IF a = "aarch64" \/ a = "x86_64" THEN 8
    ELSE IF a \in {"i386", "i686"} THEN 4
    ELSE 0

\* parse_auxv, "Determine word size": the hint's size, else ("Default to
\* native size") ctypes.sizeof(ctypes.c_ulong)
ul_size(a, native) ==
    IF a = "aarch64" \/ a = "x86_64" THEN 8
    ELSE IF a \in {"i386", "i686"} THEN 4
    ELSE native

\* Three loops that differ from parse_auxv's in one statement each.
\* The first appends the pair before it tests the tag, so that the
\* terminator is returned as well.
RECURSIVE parse_loop_keeps_null(_, _, _, _, _, _)
parse_loop_keeps_null(bytes, i, step, fmt, byteorder, acc) ==
    IF i >= Len(bytes) THEN [entries |-> acc, raised |-> "none"]
    ELSE LET chunk == Slice(bytes, i, i + step) IN
         IF Len(chunk) < step THEN [entries |-> acc, raised |-> "none"]
         ELSE LET u == unpack(fmt, chunk, byteorder) IN
              IF u.raised # "none"
              THEN [entries |-> <<>>, raised |-> u.raised]
              ELSE IF u.fields[1] = AT_NULL
              THEN [entries |-> Append(acc, u.fields), raised |-> "none"]
              ELSE parse_loop_keeps_null(bytes, i + step, step, fmt,
                                         byteorder, Append(acc, u.fields))

\* The second has no test of the chunk's length: a short last chunk goes to
\* struct.unpack.
RECURSIVE parse_loop_unpacks_tail(_, _, _, _, _, _)
parse_loop_unpacks_tail(bytes, i, step, fmt, byteorder, acc) ==
    IF i >= Len(bytes) THEN [entries |-> acc, raised |-> "none"]
    ELSE LET chunk == Slice(bytes, i, i + step)
             u == unpack(fmt, chunk, byteorder)
         IN  IF u.raised # "none"
             THEN [entries |-> <<>>, raised |-> u.raised]
             ELSE IF u.fields[1] = AT_NULL
             THEN [entries |-> acc, raised |-> "none"]
             ELSE parse_loop_unpacks_tail(bytes, i + step, step, fmt,
                                          byteorder, Append(acc, u.fields))

\* The third goes on to the next pair after a tag 0 instead of leaving the
\* loop.
RECURSIVE parse_loop_skips_null(_, _, _, _, _, _)
parse_loop_skips_null(bytes, i, step, fmt, byteorder, acc) ==
    IF i >= Len(bytes) THEN [entries |-> acc, raised |-> "none"]
    ELSE LET chunk == Slice(bytes, i, i + step) IN
         IF Len(chunk) < step THEN [entries |-> acc, raised |-> "none"]
         ELSE LET u == unpack(fmt, chunk, byteorder) IN
              IF u.raised # "none"
              THEN [entries |-> <<>>, raised |-> u.raised]
              ELSE parse_loop_skips_null(
                       bytes, i + step, step, fmt, byteorder,
                       IF u.fields[1] = AT_NULL THEN acc
                       ELSE Append(acc, u.fields))

\* the for loop of parse_auxv from offset i on, with the entries so far
RECURSIVE parse_loop(_, _, _, _, _, _)
parse_loop(bytes, i, step, fmt, byteorder, acc) ==
    IF i >= Len(bytes) THEN [entries |-> acc, raised |-> "none"]
    ELSE LET chunk == Slice(bytes, i, i + step) IN
         IF Len(chunk) < step THEN [entries |-> acc, raised |-> "none"]
         ELSE LET u == unpack(fmt, chunk, byteorder) IN
              IF u.raised # "none"
              THEN [entries |-> <<>>, raised |-> u.raised]
              ELSE IF u.fields[1] = AT_NULL
              THEN [entries |-> acc, raised |-> "none"]
              ELSE parse_loop(bytes, i + step, step, fmt, byteorder,
                              Append(acc, u.fields))

\* parse_auxv(data, arch) under an interpreter whose unsigned long has
\* `native` bytes: the entries returned, or the exception raised
parse_auxv(bytes, a, native, byteorder) ==
    LET sz == ul_size(a, native) IN
    IF sz = 8 THEN parse_loop(bytes, 0, 16, "QQ", byteorder, <<>>)
    ELSE IF sz = 4 THEN parse_loop(bytes, 0, 8, "II", byteorder, <<>>)
    ELSE [entries |-> <<>>, raised |-> "RuntimeError"]

-----------------------------------------------------------------------------
(* auxv.print.py: the environment main() runs in *)

\* platform.machine(), ctypes.sizeof(ctypes.c_ulong) and sys.byteorder of
\* interpreters that exist: 64-bit builds, 32-bit builds on 64-bit kernels
\* (uname still reports the kernel's machine), 32-bit hosts, and machines
\* outside SUPPORTED_ARCH_LIST
Platforms ==
    { [machine |-> "aarch64", ulong |-> 8, byteorder |-> "little"],
      [machine |-> "aarch64", ulong |-> 4, byteorder |-> "little"],
      [machine |-> "x86_64",  ulong |-> 8, byteorder |-> "little"],
      [machine |-> "i686",    ulong |-> 4, byteorder |-> "little"],
      [machine |-> "riscv64", ulong |-> 8, byteorder |-> "little"],
      [machine |-> "s390x",   ulong |-> 8, byteorder |-> "big"],
      [machine |-> "ppc",     ulong |-> 4, byteorder |-> "big"] }

\* sys.argv: --decode-auxv FILE, --decode-arch ARCH, --decode-hwcap
ArgSpace ==
    [decode_auxv : {None, "auxv.bin"},
     decode_arch : {None, "aarch64", "x86_64", "i386", "i686", "riscv64"},
     decode_hwcap : BOOLEAN]

\* (tag, value) pairs a kernel or a capture tool writes: AT_HWCAP with bits
\* {1, 3, 22}; AT_HWCAP2 with bits {0, 1, 24, 40}, wider than 32 bits; a tag
\* outside AT_NAMES with bits {0, 24, 31}; the AT_NULL terminator
SamplePairs ==
    { <<AT_HWCAP, <<10, 0, 64>>>>,
      <<AT_HWCAP2, <<3, 0, 0, 1, 0, 1>>>>,
      <<<<40>>, <<1, 0, 0, 129>>>>,
      <<AT_NULL, <<>>>> }

\* the pairs whose fields fit w bytes
PairsFitting(w) == {p \in SamplePairs : Len(p[1]) <= w /\ Len(p[2]) <= w}

SeqsUpTo(S, n) == UNION {[1..k -> S] : k \in 0..n}

\* the w bytes of one unsigned field n, in the writer's byte order
PackField(n, w, byteorder) ==
    LET le == [i \in 1..w |-> IF i <= Len(n) THEN n[i] ELSE 0]
    IN  IF byteorder = "little" THEN le ELSE Reverse(le)

RECURSIVE PackPairs(_, _, _)
PackPairs(pairs, w, byteorder) ==
    IF pairs = <<>> THEN <<>>
    ELSE PackField(Head(pairs)[1], w, byteorder)
         \o PackField(Head(pairs)[2], w, byteorder)
         \o PackPairs(Tail(pairs), w, byteorder)

\* what follows the last complete pair of a capture: nothing, one byte, or
\* a whole tag and all but the last byte of its value
Tails(w, byteorder) ==
    { <<>>, <<9>>,
      PackField(AT_HWCAP, w, byteorder) \o [i \in 1..(w - 1) |-> 0] }

\* the content of a capture file: complete pairs of either word size, then
\* a tail shorter than one pair
FileSources(byteorder) ==
    UNION { [pairs : SeqsUpTo(PairsFitting(w), MaxPairs), ws : {w},
             tail : Tails(w, byteorder)] : w \in {4, 8} }

\* the content of /proc/self/auxv: the kernel writes pairs of the process's
\* own word size and ends them with AT_NULL
SelfSources(native) ==
    { [pairs |-> Append(e, <<AT_NULL, <<>>>>), ws |-> native, tail |-> <<>>] :
        e \in SeqsUpTo({p \in PairsFitting(native) : p[1] # AT_NULL},
                       MaxPairs - 1) }

BytesOf(src, byteorder) == PackPairs(src.pairs, src.ws, byteorder) \o src.tail

-----------------------------------------------------------------------------
(* auxv.print.py: main() *)

\* next((v for t, v in entries if t == tag), 0)
RECURSIVE FirstValue(_, _)
FirstValue(es, tag) ==
    IF es = <<>> THEN <<>>
    ELSE IF Head(es)[1] = tag THEN Head(es)[2]
    ELSE FirstValue(Tail(es), tag)

\* arch as main sets it before it calls parse_auxv
FileModeArch ==
    IF args.decode_arch # None THEN args.decode_arch ELSE platform.machine

SelfModeArch == platform.machine

\* main() has not run yet
AuxvStart ==
    /\ pc = "start"
    /\ args = [decode_auxv |-> None, decode_arch |-> None,
               decode_hwcap |-> FALSE]
    /\ source = [pairs |-> <<>>, ws |-> platform.ulong, tail |-> <<>>]
    /\ data = <<>>
    /\ arch = None
    /\ entries = <<>>
    /\ raised = "none"
    /\ lines = <<>>

AuxvInit == platform \in Platforms /\ AuxvStart

\* ap.parse_args(): a --decode-arch outside `choices` ends the run
ParseArgs ==
    /\ pc = "start"
    /\ \E a \in ArgSpace :
        /\ args' = a
        /\ IF a.decode_arch \notin SUPPORTED_ARCH_LIST \cup {None}
           THEN pc' = "exit" /\ raised' = "SystemExit"
           ELSE pc' = "mode" /\ raised' = raised
    /\ UNCHANGED <<platform, source, data, arch, entries, lines, insp_vars,
                   sample_vars>>

\* the call of parse_auxv with what it read and the hint a
Decode(src, a) ==
    LET bytes == BytesOf(src, platform.byteorder)
        r == parse_auxv(bytes, a, platform.ulong, platform.byteorder)
    IN  /\ source' = src
        /\ data' = bytes
        /\ arch' = a
        /\ entries' = r.entries
        /\ raised' = r.raised
        /\ pc' = IF r.raised = "none" THEN "print" ELSE "exit"
        /\ UNCHANGED <<args, platform, lines, insp_vars, sample_vars>>

\* if file_mode: ... entries = parse_auxv(args.decode_auxv, arch=arch)
FileMode ==
    /\ pc = "mode"
    /\ args.decode_auxv # None
    /\ \E src \in FileSources(platform.byteorder) : Decode(src, FileModeArch)

\* else: ... entries = parse_auxv("/proc/self/auxv", arch=arch)
SelfMode ==
    /\ pc = "mode"
    /\ args.decode_auxv = None
    /\ \E src \in SelfSources(platform.ulong) : Decode(src, SelfModeArch)

\* open() inside parse_auxv fails
OpenFails ==
    /\ pc = "mode"
    /\ arch' = IF args.decode_auxv # None THEN FileModeArch ELSE SelfModeArch
    /\ raised' = "OSError"
    /\ pc' = "exit"
    /\ UNCHANGED <<args, platform, source, data, entries, lines, insp_vars,
                   sample_vars>>

\* the table is printed; if args.decode_hwcap: lines = decode_hwcap(...)
DecodeHwcap ==
    /\ pc = "print"
    /\ args.decode_hwcap
    /\ lines' = decode_hwcap(arch, FirstValue(entries, AT_HWCAP),
                             FirstValue(entries, AT_HWCAP2))
    /\ pc' = "done"
    /\ UNCHANGED <<args, platform, source, data, arch, entries, raised,
                   insp_vars, sample_vars>>

\* the table is printed and --decode-hwcap was not given
PrintOnly ==
    /\ pc = "print"
    /\ ~args.decode_hwcap
    /\ pc' = "done"
    /\ UNCHANGED <<args, platform, source, data, arch, entries, raised, lines,
                   insp_vars, sample_vars>>

NextAuxv ==
    \/ ParseArgs
    \/ FileMode
    \/ SelfMode
    \/ OpenFails
    \/ DecodeHwcap
    \/ PrintOnly

-----------------------------------------------------------------------------
(* Claims about the Auxv Record Decoder *)

\* parse_auxv has returned to main, or has raised
Decoded ==
    \/ pc \in {"print", "done"}
    \/ (pc = "exit" /\ raised \in {"RuntimeError", "struct.error"})

\* the word size parse_auxv resolved for this run
DecodeSize == ul_size(arch, platform.ulong)

\* N pairs with non-zero tags, then one AT_NULL pair
IsTerminatedRecord(ps) ==
    /\ Len(ps) >= 1
    /\ ps[Len(ps)][1] = AT_NULL
    /\ \A k \in 1..(Len(ps) - 1) : ps[k][1] # AT_NULL

\* C1: when the buffer is N pairs with non-zero tags followed by one AT_NULL
\* pair, written with the word size the decoder then uses, parse_auxv raises
\* nothing and returns exactly those N pairs, in order
C1_RoundTrip ==
    (/\ Decoded
     /\ source.ws = DecodeSize
     /\ source.tail = <<>>
     /\ IsTerminatedRecord(source.pairs))
    => /\ raised = "none"
       /\ entries = SubSeq(source.pairs, 1, Len(source.pairs) - 1)

\* C1: a decoded 8-byte record of two pairs, the first with a tag outside
\* AT_NAMES, the second with a value wider than 32 bits
C1_Witness ==
    /\ pc = "print"
    /\ source.ws = 8 /\ DecodeSize = 8
    /\ source.tail = <<>>
    /\ IsTerminatedRecord(source.pairs)
    /\ Len(entries) = 2
    /\ entries[1][1] = <<40>>
    /\ entries[2] = <<AT_HWCAP2, <<3, 0, 0, 1, 0, 1>>>>

\* parse_auxv on the first k bytes of the buffer, as this run calls it
DecodePrefix(k) ==
    parse_auxv(SubSeq(data, 1, k), arch, platform.ulong, platform.byteorder)

\* C2: for every k <= len(data), decoding the first k bytes gives what
\* decoding the first k - (k mod stride) bytes gives, and raises nothing
\* (m counts the whole strides of the prefix, r its bytes beyond them)
C2_Truncation ==
    pc = "print" =>
        /\ \A m \in 0..(Len(data) \div (2 * DecodeSize)) :
              LET whole == DecodePrefix(m * 2 * DecodeSize)
              IN  /\ whole.raised = "none"
                  /\ \A r \in 1..(2 * DecodeSize - 1) :
                        (m * 2 * DecodeSize + r <= Len(data))
                        => DecodePrefix(m * 2 * DecodeSize + r) = whole
        /\ raised = "none"
        /\ entries =
              DecodePrefix(Len(data) - (Len(data) % (2 * DecodeSize))).entries

\* C2: a buffer decoded to two entries whose tail holds a whole tag and a
\* part of its value
C2_Witness ==
    /\ pc = "print"
    /\ Len(data) % (2 * DecodeSize) = 2 * DecodeSize - 1
    /\ Len(entries) = 2

\* the complete pairs of a buffer, each read field by field
CompletePairs(bytes, w, byteorder) ==
    [k \in 1..(Len(bytes) \div (2 * w)) |->
        <<FieldOf(SubSeq(bytes, 2 * w * (k - 1) + 1, 2 * w * k), 1, w,
                  byteorder),
          FieldOf(SubSeq(bytes, 2 * w * (k - 1) + 1, 2 * w * k), 2, w,
                  byteorder)>>]

\* the index of the first pair with tag 0, or one past the last pair
FirstNull(ps) ==
    IF \E k \in 1..Len(ps) : ps[k][1] = AT_NULL
    THEN CHOOSE k \in 1..Len(ps) :
            /\ ps[k][1] = AT_NULL
            /\ \A j \in 1..(k - 1) : ps[j][1] # AT_NULL
    ELSE Len(ps) + 1

PairsBeforeNull(bytes, w, byteorder) ==
    SubSeq(CompletePairs(bytes, w, byteorder), 1,
           FirstNull(CompletePairs(bytes, w, byteorder)) - 1)

\* C3: the returned list is exactly the complete pairs before the first pair
\* with tag 0 (all complete pairs when there is none) and holds no tag 0; a
\* 24-byte buffer of 4-byte words whose third pair is the first with tag 0
\* gives exactly the first 2 pairs
C3_StopsAtNull ==
    Decoded =>
        /\ entries = PairsBeforeNull(data, DecodeSize, platform.byteorder)
        /\ \A k \in 1..Len(entries) : entries[k][1] # AT_NULL
        /\ (/\ DecodeSize = 4
            /\ Len(data) = 24
            /\ FirstNull(CompletePairs(data, 4, platform.byteorder)) = 3)
           => entries = SubSeq(CompletePairs(data, 4, platform.byteorder), 1, 2)

\* C3: a 24-byte buffer decoded with word size 4 whose third pair is the
\* first with tag 0, decoded to 2 entries
C3_Witness ==
    /\ pc = "print"
    /\ DecodeSize = 4
    /\ Len(data) = 24
    /\ FirstNull(CompletePairs(data, 4, platform.byteorder)) = 3
    /\ Len(entries) = 2

-----------------------------------------------------------------------------
(* Claims about the word size *)

\* main called parse_auxv and the file was read: the word size was resolved
Resolved ==
    \/ pc \in {"print", "done"}
    \/ (pc = "exit" /\ raised \in {"RuntimeError", "struct.error"})

\* C4 as stated: in file mode a hint outside SUPPORTED_ARCH_LIST ends in a
\* configuration error and returns no entries
C4_UnsupportedHintIsError ==
    (/\ args.decode_auxv # None
     /\ Resolved
     /\ arch \notin SUPPORTED_ARCH_LIST)
    => /\ raised \in {"RuntimeError", "SystemExit"}
       /\ entries = <<>>

\* C4 as amended: a --decode-arch outside SUPPORTED_ARCH_LIST is rejected by
\* the argument parser before anything is decoded; a hint outside the list
\* that reaches parse_auxv (in file mode the platform's machine name) is no
\* error: the word size is that of the interpreter's unsigned long and the
\* buffer is decoded with it
C4_UnsupportedHintFallsBack ==
    /\ (pc # "start"
        /\ args.decode_arch \notin SUPPORTED_ARCH_LIST \cup {None})
       => /\ pc = "exit"
          /\ raised = "SystemExit"
          /\ entries = <<>>
          /\ data = <<>>
    /\ (/\ args.decode_auxv # None
        /\ Resolved
        /\ arch \notin SUPPORTED_ARCH_LIST)
       => /\ raised = "none"
          /\ args.decode_arch = None
          /\ arch = platform.machine
          /\ entries = PairsBeforeNull(data, platform.ulong,
                                       platform.byteorder)

\* C4: file mode without --decode-arch on a riscv64 host: entries were
\* decoded, with the native word size
C4_Witness ==
    /\ pc = "print"
    /\ args.decode_auxv # None
    /\ arch = "riscv64"
    /\ Len(entries) = 2
    /\ source.ws = platform.ulong

\* C10 as stated: in self mode the buffer is decoded with the size of the
\* process's unsigned long, whatever platform.machine() reports
C10_SelfModeNativeSize ==
    (args.decode_auxv = None /\ Resolved) => DecodeSize = platform.ulong

-----------------------------------------------------------------------------
(* Claims about the Hardware Capability Expander *)

\* the bit positions set in an int
BitsOf(n) ==
    {b \in 0..(8 * Len(n) - 1) : (n[(b \div 8) + 1] \div (2 ^ (b % 8))) % 2 = 1}

\* the names a table gives to the bits set in an int
NamesOf(bits, table) ==
    {table[i][2] : i \in {k \in 1..Len(table) : table[k][1] \in BitsOf(bits)}}

\* a set of names in ascending order: the least one first
RECURSIVE Ascending(_)
Ascending(S) ==
    IF S = {} THEN <<>>
    ELSE LET least == CHOOSE x \in S : \A y \in S \ {x} : StrLess(x, y)
         IN  <<least>> \o Ascending(S \ {least})

\* the line for one slot: nothing when no bit has a name
SlotLine(label, bits, table) ==
    IF NamesOf(bits, table) = {} THEN <<>>
    ELSE <<label \o join(", ", Ascending(NamesOf(bits, table)))>>

\* C5: for each slot (AArch64 primary and secondary, x86 primary) the
\* expander reports exactly the table's names of the bits set in the bitmask,
\* in lexical order; bits without a name add nothing; bits {1, 3, 22} on the
\* AArch64 primary table give AES, ASIMD, SVE
C5_Expander ==
    (pc = "done" /\ args.decode_hwcap) =>
        LET hw1 == FirstValue(entries, AT_HWCAP)
            hw2 == FirstValue(entries, AT_HWCAP2)
        IN  /\ arch = "aarch64" =>
                lines = SlotLine("HWCAP:  ", hw1, AARCH64_HWCAP)
                        \o SlotLine("HWCAP2: ", hw2, AARCH64_HWCAP2)
            /\ arch \in {"x86_64", "i386", "i686"} =>
                /\ Len(lines) >= Len(SlotLine("HWCAP:  ", hw1, X86_HWCAP))
                /\ SubSeq(lines, 1, Len(SlotLine("HWCAP:  ", hw1, X86_HWCAP)))
                      = SlotLine("HWCAP:  ", hw1, X86_HWCAP)
            /\ (arch = "aarch64" /\ BitsOf(hw1) = {1, 3, 22}) =>
                lines[1] = "HWCAP:  AES, ASIMD, SVE"

\* C5: bits {1, 3, 22} expanded on the AArch64 primary table, and a
\* secondary bitmask with bits (24, 40) the table does not name
C5_Witness ==
    /\ pc = "done"
    /\ args.decode_hwcap
    /\ arch = "aarch64"
    /\ BitsOf(FirstValue(entries, AT_HWCAP)) = {1, 3, 22}
    /\ BitsOf(FirstValue(entries, AT_HWCAP2)) = {0, 1, 24, 40}
    /\ lines = <<"HWCAP:  AES, ASIMD, SVE", "HWCAP2: DCPODP, SVE2">>

-----------------------------------------------------------------------------
(* Python's re.  A compiled pattern is a tree of nodes: set (one character *)
(* of cs), bol ("^"), cat, alt, plus, star.  Only whether a match exists   *)
(* is observed, so matching is by the set of positions a match can end at. *)

AllChars == DOMAIN OrdTable \cup {"\t", "\r", "\f"}

\* [...]: one character of cs
Set(cs) == [k |-> "set", cs |-> cs]

\* the characters of a string, and those from a to b
Chars(s) == {Char(s, i) : i \in 1..Len(s)}
Range(a, b) == {c \in DOMAIN OrdTable : Ord(a) <= Ord(c) /\ Ord(c) <= Ord(b)}

\* \s (the vertical tab cannot be written in a TLA+ string)
WS == Set({" ", "\t", "\n", "\r", "\f"})

\* "." (no flag: any character but the newline)
Dot == Set(AllChars)

\* "^" (no flag: the start of the string)
Bol == [k |-> "bol"]

\* xy, x|y, x+, x*
Cat(xs) == [k |-> "cat", xs |-> xs]
Alt(xs) == [k |-> "alt", xs |-> xs]
Plus(x) == [k |-> "plus", x |-> x]
Star(x) == [k |-> "star", x |-> x]

\* literal characters
Lit(s) == Cat([i \in 1..Len(s) |-> Set({Char(s, i)})])

\* the positions (index of the next character) where a match of node that
\* starts at a position of P can end
RECURSIVE Ends(_, _, _)
RECURSIVE EndsCat(_, _, _)
RECURSIVE EndsPlus(_, _, _, _)
Ends(node, s, P) ==
    IF P = {} THEN {}
    ELSE IF node.k = "set"
    THEN {q + 1 : q \in {x \in P : Char(s, x) \in node.cs}}
    ELSE IF node.k = "bol" THEN P \cap {1}
    ELSE IF node.k = "cat" THEN EndsCat(node.xs, s, P)
    ELSE IF node.k = "alt"
    THEN UNION {Ends(node.xs[i], s, P) : i \in 1..Len(node.xs)}
    ELSE IF node.k = "plus"
    THEN EndsPlus(node.x, s, Ends(node.x, s, P), {})
    ELSE P \cup EndsPlus(node.x, s, Ends(node.x, s, P), {})

EndsCat(xs, s, P) ==
    IF xs = <<>> THEN P ELSE EndsCat(Tail(xs), s, Ends(Head(xs), s, P))

EndsPlus(x, s, frontier, seen) ==
    IF frontier \subseteq seen THEN seen
    ELSE EndsPlus(x, s, Ends(x, s, frontier \ seen), seen \cup frontier)

-----------------------------------------------------------------------------
(* arm64.inspect.py: the Capability Pattern Registry *)

\* the dict literal, as its items() in insertion order: <<name, pattern>>
INSPECT_ARRAY == <<
    <<"asimd",
      "\\s(fadd|fmul|ld1|st1|saddl|uaddl|sqadd|movi|add\\s+v|"
      \o "sub\\s+v|mul\\s+v|ld[234]|st[234]|umull|smull)">>,
    <<"asimdhp",
      "\\s(fadd\\s+h|fmul\\s+h|fmla\\s+h|fabs\\s+h|fneg\\s+h|"
      \o "fsqrt\\s+h)">>,
    <<"asimdfhm", "\\s(fmlal|fmlsl)">>,
    <<"asimddp", "\\s(sdot|udot)">>,
    <<"asimdrdm", "\\s(sqrdmlah|sqrdmlsh)">>,
    <<"i8mm", "\\s(smmla|ummla|usmmla)">>,
    <<"bf16", "\\s(bfdot|bfmmla|bfcvt)">>,
    <<"bf16fml", "\\s(bfmlalb|bfmlalt)">>,
    <<"sve", "\\sz[0-9]+\\.">>,
    <<"sve2",
      "\\s(sqrdmlah\\s+z|sqrdmlsh\\s+z|match|nmatch|histcnt|"
      \o "histseg|addhnb|raddhnb)">>,
    <<"svei8mm", "\\s(smmla\\s+z|ummla\\s+z|usmmla\\s+z)">>,
    <<"svebf16", "\\s(bfdot\\s+z|bfmmla\\s+z|bfcvt\\s+z)">>,
    <<"sveaes", "\\s(aesd\\s+z|aese\\s+z|aesimc\\s+z|aesmc\\s+z)">>,
    <<"svepmull", "\\s(pmull\\s+z)">>,
    <<"svebitperm", "\\s(bext|bdep|bgrp)">>,
    <<"svesha3", "\\s(rax1|bcax|eor3|xar)">>,
    <<"svesm4", "\\s(sm4e\\s+z|sm4ekey\\s+z)">>,
    <<"fphp", "\\s(fcvt\\s+h|fadd\\s+h|fmul\\s+h|fdiv\\s+h|fsub\\s+h)">>,
    <<"fcma", "\\s(fcmla|fcadd)">>,
    <<"frint", "\\s(frint32x|frint64x|frint32z|frint64z)">>,
    <<"aes", "\\s(aese|aesd|aesmc|aesimc)">>,
    <<"pmull", "\\s(pmull)">>,
    <<"sha1", "\\s(sha1[cpmhsu])">>,
    <<"sha2", "\\s(sha256[hsu]|sha512[hsu])">>,
    <<"sha3", "\\s(rax1|bcax|eor3|xar)">>,
    <<"sha512", "\\s(sha512[hsu])">>,
    <<"sm3", "\\s(sm3ss1|sm3tt[12][ab]|sm3partw[12])">>,
    <<"sm4", "\\s(sm4e|sm4ekey)">>,
    <<"atomics",
      "\\s(ldadd|ldclr|ldeor|ldset|ldsmax|ldsmin|ldumax|"
      \o "ldumin|cas|casp|swp)">>,
    <<"dcpop", "\\sdc\\s+cvap">>,
    <<"dcpodp", "\\sdc\\s+cvadp">>,
    <<"uscat", "\\s(stset|stclr)">>,
    <<"lrcpc", "\\s(ldapr|stlr)">>,
    <<"ilrcpc", "\\s(ldapur|stlur)">>,
    <<"dgh", "\\sdgh">>,
    <<"sb", "\\ssb">>,
    <<"wfxt", "\\s(wfet|wfit)">>,
    <<"paca", "\\s(pacia|pacib|autia|autib)">>,
    <<"pacg", "\\s(pacda|pacdb|pacga|autda|autdb|autga)">>,
    <<"bti", "\\sbti">>,
    <<"flagm", "\\s(setf8|setf16|rmif)">>,
    <<"flagm2", "\\s(axflag|xaflag)">>,
    <<"jscvt", "\\sfjcvtzs">>,
    <<"crc32", "\\scrc32[bhwxc]">>,
    <<"dit", "\\smsr\\s+dit">>,
    <<"cpuid", "\\smrs\\s+.*,\\s*id_">>,
    <<"evtstrm", "\\sevtstrm">> >>

\* the pattern count_instructions and find_sample_instructions test first
InsnPattern == "^\\s+[0-9a-f]+:"

\* a rule that does not match every instruction line
DotProductPattern == "\\s(sdot|udot)"

\* the pattern inspect counts the total with
AnyPattern == "."

\* re.compile of every pattern the program uses
CompiledPatterns ==
    ("\\s(fadd|fmul|ld1|st1|saddl|uaddl|sqadd|movi|add\\s+v|"
     \o "sub\\s+v|mul\\s+v|ld[234]|st[234]|umull|smull)") :>
        Cat(<<WS, Alt(<<Lit("fadd"), Lit("fmul"), Lit("ld1"), Lit("st1"),
          Lit("saddl"), Lit("uaddl"), Lit("sqadd"), Lit("movi"),
          Cat(<<Lit("add"), Plus(WS), Lit("v")>>), Cat(<<Lit("sub"),
          Plus(WS), Lit("v")>>), Cat(<<Lit("mul"), Plus(WS), Lit("v")>>),
          Cat(<<Lit("ld"), Set(Chars("234"))>>), Cat(<<Lit("st"),
          Set(Chars("234"))>>), Lit("umull"), Lit("smull")>>)>>) @@
    "\\s(fadd\\s+h|fmul\\s+h|fmla\\s+h|fabs\\s+h|fneg\\s+h|fsqrt\\s+h)" :>
        Cat(<<WS, Alt(<<Cat(<<Lit("fadd"), Plus(WS), Lit("h")>>),
          Cat(<<Lit("fmul"), Plus(WS), Lit("h")>>), Cat(<<Lit("fmla"),
          Plus(WS), Lit("h")>>), Cat(<<Lit("fabs"), Plus(WS), Lit("h")>>),
          Cat(<<Lit("fneg"), Plus(WS), Lit("h")>>), Cat(<<Lit("fsqrt"),
          Plus(WS), Lit("h")>>)>>)>>) @@
    "\\s(fmlal|fmlsl)" :>
        Cat(<<WS, Alt(<<Lit("fmlal"), Lit("fmlsl")>>)>>) @@
    "\\s(sdot|udot)" :>
        Cat(<<WS, Alt(<<Lit("sdot"), Lit("udot")>>)>>) @@
    "\\s(sqrdmlah|sqrdmlsh)" :>
        Cat(<<WS, Alt(<<Lit("sqrdmlah"), Lit("sqrdmlsh")>>)>>) @@
    "\\s(smmla|ummla|usmmla)" :>
        Cat(<<WS, Alt(<<Lit("smmla"), Lit("ummla"), Lit("usmmla")>>)>>) @@
    "\\s(bfdot|bfmmla|bfcvt)" :>
        Cat(<<WS, Alt(<<Lit("bfdot"), Lit("bfmmla"), Lit("bfcvt")>>)>>) @@
    "\\s(bfmlalb|bfmlalt)" :>
        Cat(<<WS, Alt(<<Lit("bfmlalb"), Lit("bfmlalt")>>)>>) @@
    "\\sz[0-9]+\\." :>
        Cat(<<WS, Lit("z"), Plus(Set(Range("0", "9"))), Lit(".")>>) @@
    ("\\s(sqrdmlah\\s+z|sqrdmlsh\\s+z|match|nmatch|histcnt|"
     \o "histseg|addhnb|raddhnb)") :>
        Cat(<<WS, Alt(<<Cat(<<Lit("sqrdmlah"), Plus(WS), Lit("z")>>),
          Cat(<<Lit("sqrdmlsh"), Plus(WS), Lit("z")>>), Lit("match"),
          Lit("nmatch"), Lit("histcnt"), Lit("histseg"), Lit("addhnb"),
          Lit("raddhnb")>>)>>) @@
    "\\s(smmla\\s+z|ummla\\s+z|usmmla\\s+z)" :>
        Cat(<<WS, Alt(<<Cat(<<Lit("smmla"), Plus(WS), Lit("z")>>),
          Cat(<<Lit("ummla"), Plus(WS), Lit("z")>>), Cat(<<Lit("usmmla"),
          Plus(WS), Lit("z")>>)>>)>>) @@
    "\\s(bfdot\\s+z|bfmmla\\s+z|bfcvt\\s+z)" :>
        Cat(<<WS, Alt(<<Cat(<<Lit("bfdot"), Plus(WS), Lit("z")>>),
          Cat(<<Lit("bfmmla"), Plus(WS), Lit("z")>>), Cat(<<Lit("bfcvt"),
          Plus(WS), Lit("z")>>)>>)>>) @@
    "\\s(aesd\\s+z|aese\\s+z|aesimc\\s+z|aesmc\\s+z)" :>
        Cat(<<WS, Alt(<<Cat(<<Lit("aesd"), Plus(WS), Lit("z")>>),
          Cat(<<Lit("aese"), Plus(WS), Lit("z")>>), Cat(<<Lit("aesimc"),
          Plus(WS), Lit("z")>>), Cat(<<Lit("aesmc"), Plus(WS),
          Lit("z")>>)>>)>>) @@
    "\\s(pmull\\s+z)" :>
        Cat(<<WS, Cat(<<Lit("pmull"), Plus(WS), Lit("z")>>)>>) @@
    "\\s(bext|bdep|bgrp)" :>
        Cat(<<WS, Alt(<<Lit("bext"), Lit("bdep"), Lit("bgrp")>>)>>) @@
    "\\s(rax1|bcax|eor3|xar)" :>
        Cat(<<WS, Alt(<<Lit("rax1"), Lit("bcax"), Lit("eor3"),
          Lit("xar")>>)>>) @@
    "\\s(sm4e\\s+z|sm4ekey\\s+z)" :>
        Cat(<<WS, Alt(<<Cat(<<Lit("sm4e"), Plus(WS), Lit("z")>>),
          Cat(<<Lit("sm4ekey"), Plus(WS), Lit("z")>>)>>)>>) @@
    "\\s(fcvt\\s+h|fadd\\s+h|fmul\\s+h|fdiv\\s+h|fsub\\s+h)" :>
        Cat(<<WS, Alt(<<Cat(<<Lit("fcvt"), Plus(WS), Lit("h")>>),
          Cat(<<Lit("fadd"), Plus(WS), Lit("h")>>), Cat(<<Lit("fmul"),
          Plus(WS), Lit("h")>>), Cat(<<Lit("fdiv"), Plus(WS), Lit("h")>>),
          Cat(<<Lit("fsub"), Plus(WS), Lit("h")>>)>>)>>) @@
    "\\s(fcmla|fcadd)" :>
        Cat(<<WS, Alt(<<Lit("fcmla"), Lit("fcadd")>>)>>) @@
    "\\s(frint32x|frint64x|frint32z|frint64z)" :>
        Cat(<<WS, Alt(<<Lit("frint32x"), Lit("frint64x"), Lit("frint32z"),
          Lit("frint64z")>>)>>) @@
    "\\s(aese|aesd|aesmc|aesimc)" :>
        Cat(<<WS, Alt(<<Lit("aese"), Lit("aesd"), Lit("aesmc"),
          Lit("aesimc")>>)>>) @@
    "\\s(pmull)" :>
        Cat(<<WS, Lit("pmull")>>) @@
    "\\s(sha1[cpmhsu])" :>
        Cat(<<WS, Cat(<<Lit("sha1"), Set(Chars("cpmhsu"))>>)>>) @@
    "\\s(sha256[hsu]|sha512[hsu])" :>
        Cat(<<WS, Alt(<<Cat(<<Lit("sha256"), Set(Chars("hsu"))>>),
          Cat(<<Lit("sha512"), Set(Chars("hsu"))>>)>>)>>) @@
    "\\s(sha512[hsu])" :>
        Cat(<<WS, Cat(<<Lit("sha512"), Set(Chars("hsu"))>>)>>) @@
    "\\s(sm3ss1|sm3tt[12][ab]|sm3partw[12])" :>
        Cat(<<WS, Alt(<<Lit("sm3ss1"), Cat(<<Lit("sm3tt"), Set(Chars("12")),
          Set(Chars("ab"))>>), Cat(<<Lit("sm3partw"),
          Set(Chars("12"))>>)>>)>>) @@
    "\\s(sm4e|sm4ekey)" :>
        Cat(<<WS, Alt(<<Lit("sm4e"), Lit("sm4ekey")>>)>>) @@
    ("\\s(ldadd|ldclr|ldeor|ldset|ldsmax|ldsmin|ldumax|"
     \o "ldumin|cas|casp|swp)") :>
        Cat(<<WS, Alt(<<Lit("ldadd"), Lit("ldclr"), Lit("ldeor"),
          Lit("ldset"), Lit("ldsmax"), Lit("ldsmin"), Lit("ldumax"),
          Lit("ldumin"), Lit("cas"), Lit("casp"), Lit("swp")>>)>>) @@
    "\\sdc\\s+cvap" :>
        Cat(<<WS, Lit("dc"), Plus(WS), Lit("cvap")>>) @@
    "\\sdc\\s+cvadp" :>
        Cat(<<WS, Lit("dc"), Plus(WS), Lit("cvadp")>>) @@
    "\\s(stset|stclr)" :>
        Cat(<<WS, Alt(<<Lit("stset"), Lit("stclr")>>)>>) @@
    "\\s(ldapr|stlr)" :>
        Cat(<<WS, Alt(<<Lit("ldapr"), Lit("stlr")>>)>>) @@
    "\\s(ldapur|stlur)" :>
        Cat(<<WS, Alt(<<Lit("ldapur"), Lit("stlur")>>)>>) @@
    "\\sdgh" :>
        Cat(<<WS, Lit("dgh")>>) @@
    "\\ssb" :>
        Cat(<<WS, Lit("sb")>>) @@
    "\\s(wfet|wfit)" :>
        Cat(<<WS, Alt(<<Lit("wfet"), Lit("wfit")>>)>>) @@
    "\\s(pacia|pacib|autia|autib)" :>
        Cat(<<WS, Alt(<<Lit("pacia"), Lit("pacib"), Lit("autia"),
          Lit("autib")>>)>>) @@
    "\\s(pacda|pacdb|pacga|autda|autdb|autga)" :>
        Cat(<<WS, Alt(<<Lit("pacda"), Lit("pacdb"), Lit("pacga"),
          Lit("autda"), Lit("autdb"), Lit("autga")>>)>>) @@
    "\\sbti" :>
        Cat(<<WS, Lit("bti")>>) @@
    "\\s(setf8|setf16|rmif)" :>
        Cat(<<WS, Alt(<<Lit("setf8"), Lit("setf16"), Lit("rmif")>>)>>) @@
    "\\s(axflag|xaflag)" :>
        Cat(<<WS, Alt(<<Lit("axflag"), Lit("xaflag")>>)>>) @@
    "\\sfjcvtzs" :>
        Cat(<<WS, Lit("fjcvtzs")>>) @@
    "\\scrc32[bhwxc]" :>
        Cat(<<WS, Lit("crc32"), Set(Chars("bhwxc"))>>) @@
    "\\smsr\\s+dit" :>
        Cat(<<WS, Lit("msr"), Plus(WS), Lit("dit")>>) @@
    "\\smrs\\s+.*,\\s*id_" :>
        Cat(<<WS, Lit("mrs"), Plus(WS), Star(Dot), Lit(","), Star(WS),
          Lit("id_")>>) @@
    "\\sevtstrm" :>
        Cat(<<WS, Lit("evtstrm")>>) @@
    "^\\s+[0-9a-f]+:" :>
        Cat(<<Bol, Plus(WS), Plus(Set(Range("0", "9") \cup Range("a", "f"))),
          Lit(":")>>) @@
    "." :>
        Dot

\* re.search(pattern, string) is not None
re_search(pattern, string) ==
    Ends(CompiledPatterns[pattern], string, 1..(Len(string) + 1)) # {}

-----------------------------------------------------------------------------
(* arm64.inspect.py: the Instruction Classifier *)

\* text.split("\n")
RECURSIVE split(_)
split(text) ==
    LET nl == {i \in 1..Len(text) : Char(text, i) = "\n"} IN
    IF nl = {} THEN <<text>>
    ELSE LET i == CHOOSE x \in nl : \A y \in nl : x <= y
         IN  <<SubSeq(text, 1, i - 1)>> \o split(SubSeq(text, i + 1, Len(text)))

\* the number of places of a string a pattern matches at
occurrences(pattern, string) ==
    Cardinality({p \in 1..(Len(string) + 1) :
                   Ends(CompiledPatterns[pattern], string, {p}) # {}})

\* a count that adds every place an instruction line matches at
RECURSIVE count_occurrences(_, _)
count_occurrences(ls, pattern) ==
    IF ls = <<>> THEN 0
    ELSE (IF re_search(InsnPattern, Head(ls))
          THEN occurrences(pattern, Head(ls))
          ELSE 0)
         + count_occurrences(Tail(ls), pattern)

\* a count over all the lines, with or without an address
RECURSIVE count_any_line(_, _)
count_any_line(ls, pattern) ==
    IF ls = <<>> THEN 0
    ELSE (IF re_search(pattern, Head(ls)) THEN 1 ELSE 0)
         + count_any_line(Tail(ls), pattern)

\* a count whose address test asks for neither the leading whitespace nor
\* the colon, so that a symbol line "0000000000401000 <main>:" passes it
RECURSIVE count_symbol_lines_too(_, _)
count_symbol_lines_too(ls, pattern) ==
    IF ls = <<>> THEN 0
    ELSE (IF Ends(Cat(<<Bol, Star(WS),
                        Plus(Set(Range("0", "9") \cup Range("a", "f")))>>),
                  Head(ls), 1..(Len(Head(ls)) + 1)) # {}
          THEN (IF re_search(pattern, Head(ls)) THEN 1 ELSE 0)
          ELSE 0)
         + count_symbol_lines_too(Tail(ls), pattern)

\* the body of count_instructions' for loop, from the first of ls on
RECURSIVE count_lines(_, _)
count_lines(ls, pattern) ==
    IF ls = <<>> THEN 0
    ELSE (IF re_search(InsnPattern, Head(ls))
          THEN (IF re_search(pattern, Head(ls)) THEN 1 ELSE 0)
          ELSE 0)
         + count_lines(Tail(ls), pattern)

count_instructions(text, pattern) == count_lines(split(text), pattern)

\* line.strip(): without its leading and trailing whitespace
RECURSIVE strip(_)
strip(line) ==
    IF line = "" THEN ""
    ELSE IF Char(line, 1) \in WS.cs THEN strip(SubSeq(line, 2, Len(line)))
    ELSE IF Char(line, Len(line)) \in WS.cs
    THEN strip(SubSeq(line, 1, Len(line) - 1))
    ELSE line

\* the for loop of find_sample_instructions from the first of ls on, with
\* the samples so far
RECURSIVE find_loop(_, _, _, _)
find_loop(ls, pattern, limit, found) ==
    IF ls = <<>> THEN found
    ELSE IF re_search(InsnPattern, Head(ls)) /\ re_search(pattern, Head(ls))
    THEN (IF Len(found) + 1 >= limit
          THEN Append(found, strip(Head(ls)))
          ELSE find_loop(Tail(ls), pattern, limit,
                         Append(found, strip(Head(ls)))))
    ELSE find_loop(Tail(ls), pattern, limit, found)

find_sample_instructions(text, pattern, limit) ==
    find_loop(split(text), pattern, limit, <<>>)

RECURSIVE GCD(_, _)
GCD(a, b) == IF b = 0 THEN a ELSE GCD(b, a % b)

\* the float n / d (d > 0), as the fraction in lowest terms
Float(n, d) == [num |-> n \div GCD(n, d), den |-> d \div GCD(n, d)]

\* (count * 100.0) / total_insn if total_insn > 0 else 0.0
percentage(count, total) ==
    IF total > 0 THEN Float(count * 100, total) ELSE Float(0, 1)

\* if count > 0: detected.append(ext_name)
append_detected(det, ext_name, count) ==
    IF count > 0 THEN Append(det, ext_name) ELSE det

\* an undetected list that takes every category
append_always(undet, ext_name, count) == Append(undet, ext_name)

\* else: undetected.append(ext_name)
append_undetected(undet, ext_name, count) ==
    IF count > 0 THEN undet ELSE Append(undet, ext_name)

\* ";".join(names) if names else "none"
extensions_field(names) == IF names # <<>> THEN join(";", names) ELSE "none"

-----------------------------------------------------------------------------
(* arm64.inspect.py: BinaryInspector.inspect() *)

\* lines llvm-objdump -d prints: instruction lines (address, colon, text),
\* among them addresses that spell a mnemonic and a line a rule matches at
\* three places; a symbol line, a blank line, and a line with a mnemonic but
\* no address
SampleLines ==
    { "  401000: sdot v0.4s, v1.16b, v2.16b",
      "  401000: ret",
      "   fadd0: ret",
      "  fcadd0: ret",
      "  401008: add z0.s, z1.s, z2.s",
      "  401004:\t6e829420\tudot\tv0.4s, v1.16b, v2.16b",
      "0000000000401000 <main>:",
      "",
      "\tudot\tv0.4s, v1.16b, v2.16b" }

\* the keys parse_file_info and stat fill in, in output order; their values
\* come from `file` and the file system and are not modelled
FileInfoKeys ==
    << "binary_format", "arch", "elf_version", "dynamically_linked",
       "interpreter", "android_api", "builder", "build_id_sha1", "debug_info",
       "stripped", "binary_size_mb" >>

InspInit ==
    /\ ipc = "start"
    /\ disasm = ""
    /\ total_insn = 0
    /\ ext_i = 0
    /\ detected = <<>>
    /\ undetected = <<>>
    /\ extension_results = <<>>
    /\ output = <<>>

\* disasm = self.disassemble(); total_insn = self.count_instructions(disasm,
\* r"."); the lists and extension_results start empty
Disassemble ==
    /\ ipc = "start"
    /\ \E ls \in SeqsUpTo(SampleLines, MaxLines) :
        /\ disasm' = join("\n", ls)
        /\ total_insn' = count_instructions(join("\n", ls), AnyPattern)
    /\ ext_i' = 0
    /\ detected' = <<>>
    /\ undetected' = <<>>
    /\ extension_results' = <<>>
    /\ ipc' = "loop"
    /\ UNCHANGED <<output, auxv_vars, sample_vars>>

\* one iteration of: for ext_name, pattern in INSPECT_ARRAY.items()
CountExtension ==
    /\ ipc = "loop"
    /\ ext_i < Len(INSPECT_ARRAY)
    /\ LET ext_name == INSPECT_ARRAY[ext_i + 1][1]
           pattern == INSPECT_ARRAY[ext_i + 1][2]
           count == count_instructions(disasm, pattern)
       IN  /\ extension_results' =
                extension_results
                \o << <<ext_name \o "_instructions", count>>,
                      <<ext_name \o "_instructions_percentage",
                        percentage(count, total_insn)>> >>
           /\ detected' = append_detected(detected, ext_name, count)
           /\ undetected' = append_undetected(undetected, ext_name, count)
    /\ ext_i' = ext_i + 1
    /\ UNCHANGED <<ipc, disasm, total_insn, output, auxv_vars,
                   sample_vars>>

\* the loop is over: the ordered dictionary is built and returned
BuildOutput ==
    /\ ipc = "loop"
    /\ ext_i = Len(INSPECT_ARRAY)
    /\ output' =
          << <<"binary_name", "binary">>,
             <<"detected_extensions", extensions_field(detected)>>,
             <<"undetected_extensions", extensions_field(undetected)>> >>
          \o [i \in 1..Len(FileInfoKeys) |-> <<FileInfoKeys[i], "-">>]
          \o << <<"total_instructions", total_insn>> >>
          \o extension_results
    /\ ipc' = "done"
    /\ UNCHANGED <<disasm, total_insn, ext_i, detected, undetected,
                   extension_results, auxv_vars, sample_vars>>

NextInspect ==
    \/ Disassemble
    \/ CountExtension
    \/ BuildOutput

-----------------------------------------------------------------------------
(* arm64.inspect.py: a caller of find_sample_instructions, which counts the *)
(* matches of a rule, asks for samples of it, and counts again             *)

\* the rules passed: five of the registry (four that match a line of the
\* streams, one that matches none) and the match-anything rule
SamplePatterns ==
    {INSPECT_ARRAY[i][2] :
        i \in {k \in DOMAIN INSPECT_ARRAY :
                  INSPECT_ARRAY[k][1]
                      \in {"asimd", "asimddp", "sve", "fcma", "evtstrm"}}}
    \cup {AnyPattern}

SampleInit ==
    /\ spc = "start"
    /\ s_pattern = AnyPattern
    /\ s_limit = 0
    /\ s_count = 0
    /\ samples = <<>>
    /\ s_recount = 0

\* disasm = self.disassemble(); self.count_instructions(disasm, pattern)
CountCall ==
    /\ spc = "start"
    /\ \E ls \in SeqsUpTo(SampleLines, MaxLines), pattern \in SamplePatterns :
        /\ disasm' = join("\n", ls)
        /\ s_pattern' = pattern
        /\ s_count' = count_instructions(join("\n", ls), pattern)
    /\ spc' = "counted"
    /\ UNCHANGED <<s_limit, samples, s_recount, ipc, total_insn, ext_i,
                   detected, undetected, extension_results, output, auxv_vars>>

\* self.find_sample_instructions(disasm, pattern, limit)
FindSamples ==
    /\ spc = "counted"
    /\ \E limit \in 0..MaxLimit :
        /\ s_limit' = limit
        /\ samples' = find_sample_instructions(disasm, s_pattern, limit)
    /\ spc' = "sampled"
    /\ UNCHANGED <<s_pattern, s_count, s_recount, insp_vars, auxv_vars>>

\* self.count_instructions(disasm, pattern), once more
CountAgain ==
    /\ spc = "sampled"
    /\ s_recount' = count_instructions(disasm, s_pattern)
    /\ spc' = "done"
    /\ UNCHANGED <<s_pattern, s_limit, s_count, samples, insp_vars, auxv_vars>>

NextSamples ==
    \/ CountCall
    \/ FindSamples
    \/ CountAgain

-----------------------------------------------------------------------------
(* Claims about the inspector's report *)

\* the names of the registry
Registry == {INSPECT_ARRAY[i][1] : i \in DOMAIN INSPECT_ARRAY}

\* the value extension_results holds under a key, and the one the report holds
HasKey(dict, key) == \E i \in DOMAIN dict : dict[i][1] = key
ValueOf(dict, key) == dict[CHOOSE i \in DOMAIN dict : dict[i][1] = key][2]

CountKey(ext_name) == ext_name \o "_instructions"
PercentageKey(ext_name) == ext_name \o "_instructions_percentage"

\* An instruction line read character by character: leading whitespace, a
\* hexadecimal address, a colon.  AddressStart is the position of the first
\* character after the leading whitespace, AddressEnd that of the first
\* character after the hexadecimal digits.
IsWS(c) == c \in {" ", "\t", "\n", "\r", "\f"}
IsHex(c) ==
    c \in {"0", "1", "2", "3", "4", "5", "6", "7", "8", "9",
           "a", "b", "c", "d", "e", "f"}

AddressStart(line) ==
    LET non == {i \in 1..Len(line) : ~IsWS(Char(line, i))} IN
    IF non = {} THEN Len(line) + 1
    ELSE CHOOSE i \in non : \A j \in non : i <= j

AddressEnd(line) ==
    LET non == {i \in AddressStart(line)..Len(line) : ~IsHex(Char(line, i))} IN
    IF non = {} THEN Len(line) + 1
    ELSE CHOOSE i \in non : \A j \in non : i <= j

IsInstructionLine(line) ==
    LET first == AddressStart(line) IN
    /\ first > 1
    /\ LET colon == AddressEnd(line) IN
       /\ colon > first
       /\ Char(line, colon) = ":"

\* the lines of the stream, and the instruction lines among them
StreamLines == split(disasm)
InstructionLines ==
    LET stream == StreamLines
    IN  {k \in DOMAIN stream : IsInstructionLine(stream[k])}

\* the line with its address replaced by a; other lines are left alone
Readdress(line, a) ==
    IF IsInstructionLine(line)
    THEN SubSeq(line, 1, AddressStart(line) - 1) \o a
         \o SubSeq(line, AddressEnd(line), Len(line))
    ELSE line

\* the stream with every instruction line at address a
Readdressed(a) ==
    join("\n", [k \in DOMAIN StreamLines |-> Readdress(StreamLines[k], a)])

\* addresses objdump prints: all digits, and two that spell a mnemonic
SampleAddresses == {"401000", "fadd0", "fcadd0"}

\* C6: no category rule matches on the address field: in every report, each
\* category's count is the count the same stream gets when its instruction
\* lines carry any other hexadecimal address, so that lines differing only
\* in their address are counted for exactly the same categories.
C6_AddressNeverMatched ==
    ipc = "done" =>
        \A i \in DOMAIN INSPECT_ARRAY : \A a \in SampleAddresses :
            count_instructions(Readdressed(a), INSPECT_ARRAY[i][2])
                = ValueOf(output, CountKey(INSPECT_ARRAY[i][1]))

\* the items of a list
Items(xs) == {xs[i] : i \in DOMAIN xs}
NoRepeats(xs) == Cardinality(Items(xs)) = Len(xs)

\* the categories the loop has been through
Visited == {INSPECT_ARRAY[i][1] : i \in 1..ext_i}

\* C7: the detected list and the undetected list partition the registry:
\* after every iteration the categories gone through are split between the
\* two lists, without repeats, a category being detected iff its count is
\* greater than 0; in the report every category of INSPECT_ARRAY is in exactly
\* one list, no other name appears, and an empty list is rendered "none".
C7_Partition ==
    ipc \in {"loop", "done"} =>
        /\ Items(detected) \cup Items(undetected) = Visited
        /\ Items(detected) \cap Items(undetected) = {}
        /\ NoRepeats(detected) /\ NoRepeats(undetected)
        /\ \A e \in Visited :
              e \in Items(detected) <=> ValueOf(extension_results, CountKey(e)) > 0
        /\ ipc = "done" =>
              /\ Visited = Registry
              /\ Items(detected) \cup Items(undetected) \subseteq Registry
              /\ ValueOf(output, "detected_extensions") =
                    (IF Len(detected) = 0 THEN "none" ELSE join(";", detected))
              /\ ValueOf(output, "undetected_extensions") =
                    (IF Len(undetected) = 0 THEN "none" ELSE join(";", undetected))
              /\ Len(detected) > 0 =>
                    ValueOf(output, "detected_extensions") # "none"

\* a report with categories in both lists
C7_Witness ==
    /\ ipc = "done"
    /\ Len(detected) >= 2
    /\ Len(undetected) >= 2
    /\ Len(detected) + Len(undetected) = Len(INSPECT_ARRAY)

\* C8: for an empty instruction stream (empty text, or text without an
\* instruction line) the report has total_instructions 0 and, for every
\* category, a count key with 0 and a percentage key with 0.0; all the
\* categories are in the undetected list and none is detected.
C8_EmptyStream ==
    (ipc = "done" /\ InstructionLines = {}) =>
        /\ ValueOf(output, "total_instructions") = 0
        /\ \A e \in Registry :
              /\ HasKey(output, CountKey(e))
              /\ HasKey(output, PercentageKey(e))
              /\ ValueOf(output, CountKey(e)) = 0
              /\ ValueOf(output, PercentageKey(e)) = [num |-> 0, den |-> 1]
        /\ undetected = [i \in DOMAIN INSPECT_ARRAY |-> INSPECT_ARRAY[i][1]]
        /\ detected = <<>>
        /\ ValueOf(output, "detected_extensions") = "none"

\* the report of a stream that has lines, one of them naming a mnemonic, but
\* no instruction line
C8_Witness ==
    /\ ipc = "done"
    /\ InstructionLines = {}
    /\ Len(StreamLines) = 2
    /\ \E k \in DOMAIN StreamLines : re_search("\\s(sdot|udot)", StreamLines[k])

\* C9: the single instruction line "  401000: sdot v0.4s, v1.16b, v2.16b"
\* counts 1 for asimddp and 0 for every other category; in general the
\* count an iteration stores is the number of instruction lines the rule
\* matches, so one line adds at most 1 however many times the rule matches
\* inside it.
C9_OnePerLine ==
    /\ (ipc = "done" /\ disasm = "  401000: sdot v0.4s, v1.16b, v2.16b") =>
          \A e \in Registry :
              ValueOf(output, CountKey(e)) = (IF e = "asimddp" THEN 1 ELSE 0)
    /\ ext_i > 0 =>
          LET e == INSPECT_ARRAY[ext_i][1]
              pattern == INSPECT_ARRAY[ext_i][2]
              count == ValueOf(extension_results, CountKey(e))
              stream == StreamLines
              matched == {k \in DOMAIN stream :
                            /\ IsInstructionLine(stream[k])
                            /\ re_search(pattern, stream[k])}
          IN  /\ count = Cardinality(matched)
              /\ count <= Len(stream)
              /\ Len(stream) = 1 => count <= 1

\* the report of the sdot line
C9_Witness ==
    /\ ipc = "done"
    /\ disasm = "  401000: sdot v0.4s, v1.16b, v2.16b"
    /\ ValueOf(output, "asimddp_instructions") = 1
    /\ ValueOf(output, "total_instructions") = 1

\* a line objdump prints that is no instruction line and that the streams
\* drawn do not hold: a section header.  (The symbol line, the blank line
\* and the line with a mnemonic but no address are in the streams.)
SectionHeader == "Disassembly of section .text:"

\* a list without its k-th item, and with x put in after its first k items
Without(xs, k) == SubSeq(xs, 1, k - 1) \o SubSeq(xs, k + 1, Len(xs))
WithAfter(xs, k, x) == SubSeq(xs, 1, k) \o <<x>> \o SubSeq(xs, k + 1, Len(xs))

\* the rule the loop has just counted, and the count it stored
LastPattern == INSPECT_ARRAY[ext_i][2]
LastCount == ValueOf(extension_results, CountKey(INSPECT_ARRAY[ext_i][1]))

\* C11: lines that are not instruction lines are ignored: the total is the
\* number of instruction lines of the stream, and the total (checked when
\* the loop starts) and the count of every category (each checked when the
\* loop has stored it) stay what they are when any one line that is no
\* instruction line is taken out of the stream, when all of them are, and
\* when a section header is put in at any place.  The streams hold symbol
\* lines, blank lines and lines with a mnemonic but no address at every
\* place, so that putting one of these in is taking it out, read backwards.
C11_OtherLinesIgnored ==
    ipc \in {"loop", "done"} =>
        LET stream == StreamLines
            others == {k \in DOMAIN stream : ~IsInstructionLine(stream[k])}
            removed == {join("\n", Without(stream, k)) : k \in others}
                       \cup {join("\n", SelectSeq(stream, IsInstructionLine))}
            inserted == {join("\n", WithAfter(stream, k, SectionHeader)) :
                            k \in 0..Len(stream)}
        IN  /\ total_insn = Cardinality(InstructionLines)
            /\ ~IsInstructionLine(SectionHeader)
            /\ \A text \in removed \cup inserted :
                  IF ext_i = 0
                  THEN count_instructions(text, AnyPattern) = total_insn
                  ELSE count_instructions(text, LastPattern) = LastCount

\* the report of a stream of an instruction line and a line that names a
\* mnemonic without an address: total 1, and no sdot/udot counted
C11_Witness ==
    /\ ipc = "done"
    /\ Len(StreamLines) = 2
    /\ Cardinality(InstructionLines) = 1
    /\ \E k \in DOMAIN StreamLines :
          /\ ~IsInstructionLine(StreamLines[k])
          /\ re_search("\\s(sdot|udot)", StreamLines[k])
    /\ ValueOf(output, "total_instructions") = 1
    /\ ValueOf(output, "asimddp_instructions") = 0

\* a line between its first and its last character that is no whitespace
Trimmed(line) ==
    LET non == {i \in 1..Len(line) : ~IsWS(Char(line, i))} IN
    IF non = {} THEN ""
    ELSE SubSeq(line, CHOOSE i \in non : \A j \in non : i <= j,
                      CHOOSE i \in non : \A j \in non : j <= i)

\* the instruction lines of the stream the caller's rule matches, in stream
\* order
MatchingLines ==
    LET Matches(line) == IsInstructionLine(line) /\ re_search(s_pattern, line)
    IN  SelectSeq(StreamLines, Matches)

\* C12: for every stream, rule and limit >= 0, find_sample_instructions
\* returns at most limit lines: the first min(limit, count) instruction
\* lines that match the rule (without the whitespace around them), in
\* stream order, count being what count_instructions returned for the same
\* stream and rule; count_instructions returns the same after the call.
C12_Samples ==
    spc \in {"sampled", "done"} =>
        /\ Len(samples) <= s_limit
        /\ samples = [k \in 1..Min(s_limit, s_count) |->
                        Trimmed(MatchingLines[k])]
        /\ spc = "done" => s_recount = s_count

\* the percentage the loop has just stored
LastPercentage ==
    ValueOf(extension_results, PercentageKey(INSPECT_ARRAY[ext_i][1]))

\* C13: for every stream and every category (each checked when the loop has
\* stored its results) 0 <= count <= total, the total being the count of the
\* match-anything rule over the same instruction lines; when the total is 0
\* the count is 0 and the percentage is the 0.0 of the guard, not a
\* quotient; otherwise the percentage is count * 100 / total; it lies
\* between 0 and 100.
C13_CountWithinTotal ==
    (ipc \in {"loop", "done"} /\ ext_i > 0) =>
        /\ total_insn = count_instructions(disasm, AnyPattern)
        /\ 0 <= LastCount
        /\ LastCount <= total_insn
        /\ total_insn = 0 =>
              /\ LastCount = 0
              /\ LastPercentage = [num |-> 0, den |-> 1]
        /\ total_insn > 0 =>
              /\ LastPercentage.den > 0
              /\ LastPercentage.num * total_insn
                    = LastCount * 100 * LastPercentage.den
        /\ 0 <= LastPercentage.num
        /\ LastPercentage.num <= 100 * LastPercentage.den

\* the report of two instruction lines, one counted for asimddp (50 percent)
\* and one for sve
C13_Witness ==
    /\ ipc = "done"
    /\ ValueOf(output, "total_instructions") = 2
    /\ ValueOf(output, "asimddp_instructions") = 1
    /\ ValueOf(output, "asimddp_instructions_percentage")
          = [num |-> 50, den |-> 1]
    /\ ValueOf(output, "sve_instructions") = 1

-----------------------------------------------------------------------------
(* The two programs *)

\* auxv.print.py, on any of the platforms
InitAuxv == AuxvInit /\ InspInit /\ SampleInit

SpecAuxv == InitAuxv /\ [][NextAuxv]_vars

\* arm64.inspect.py; it reads nothing of the platform
InitInspect ==
    /\ platform = [machine |-> "aarch64", ulong |-> 8, byteorder |-> "little"]
    /\ AuxvStart
    /\ InspInit
    /\ SampleInit

SpecInspect == InitInspect /\ [][NextInspect]_vars

\* a caller of find_sample_instructions
SpecSamples == InitInspect /\ [][NextSamples]_vars

=============================================================================
